---- MODULE Spec2Model ----
(***************************************************************************)
(* The weather-tool chat agent of src/llm_agent.py, src/weather_tool.py,   *)
(* src/prompt_templates.py and its driver src/main.py, as a state machine. *)
(*                                                                         *)
(* A Python str is a sequence of tokens (TLA+ strings); None is the empty  *)
(* sequence, the empty str is the one-token sequence <<"">>.  A JSON text  *)
(* is the token sequence  "{", key, value, ..., "}"  and json_loads parses *)
(* that shape; any other text is not JSON.                                 *)
(*                                                                         *)
(* One sequential process: pc is the statement about to run, ctx the       *)
(* driver functions on the call stack, span_stack the spans whose `with`   *)
(* block is being executed (indices into the span log spans).              *)
(***************************************************************************)
EXTENDS Integers, Sequences, FiniteSets, TLC

\* ------------------------------------------------------------- bounds
\* Input lines read by the interactive loop that do not end it.
MaxInputs == 4
\* Tool calls carried by one model response.
MaxToolCalls == 2

\* ------------------------------------------------------------- texts
None == <<>>
Str(s) == <<s>>

\* A comparison of the line as typed, without str.lower().
str_as_typed(s) == s
\* str.lower(), token by token, over the tokens the inputs are drawn from.
lower_token(t) ==
    CASE t = "QUIT" -> "quit"
      [] t = " Reset " -> " reset "
      [] t = "Reset" -> "reset"
      [] t = "London" -> "london"
      [] t = " LONDON " -> " london "
      [] t = "LONDON" -> "london"
      [] t = "London, UK" -> "london, uk"
      [] t = " Paris " -> " paris "
      [] t = "Paris" -> "paris"
      [] t = "Tokyo" -> "tokyo"
      [] t = "NEW YORK" -> "new york"
      [] t = "New  York" -> "new  york"
      [] t = "San Francisco " -> "san francisco "
      [] OTHER -> t
str_lower(s) == [i \in 1..Len(s) |-> lower_token(s[i])]

\* str.strip(), on a one-token text.
strip_token(t) ==
    CASE t = " Reset " -> "Reset"
      [] t = " reset " -> "reset"
      [] t = " LONDON " -> "LONDON"
      [] t = " london " -> "london"
      [] t = " Paris " -> "Paris"
      [] t = " paris " -> "paris"
      [] t = " tokyo" -> "tokyo"
      [] t = "San Francisco " -> "San Francisco"
      [] t = "san francisco " -> "san francisco"
      [] t = " " -> ""
      [] t = " q1 " -> "q1"
      [] OTHER -> t
\* A line taken as it was typed, without str.strip().
str_unstripped(s) == s
str_strip(s) == [i \in 1..Len(s) |-> strip_token(s[i])]

\* ------------------------------------------------------------- JSON
IsJsonObject(t) ==
    /\ Len(t) >= 2
    /\ t[1] = "{"
    /\ t[Len(t)] = "}"
    /\ (Len(t) - 2) % 2 = 0
JsonKeys(t) == {t[2 * i] : i \in 1..((Len(t) - 2) \div 2)}
JsonGet(t, k) ==
    LET i == CHOOSE j \in 1..((Len(t) - 2) \div 2) : t[2 * j] = k
    IN  t[2 * i + 1]
\* json.loads(text): ok with the parsed object, or a JSONDecodeError.
json_loads(t) ==
    IF IsJsonObject(t)
    THEN [ok |-> TRUE, keys |-> JsonKeys(t), text |-> t]
    ELSE [ok |-> FALSE, keys |-> {}, text |-> t]
\* json.dumps of a record given as its fields in order and its values.
json_dumps(fields, rec) ==
    LET n == Len(fields)
    IN  [i \in 1..(2 * n + 2) |->
            IF i = 1 THEN "{"
            ELSE IF i = 2 * n + 2 THEN "}"
            ELSE IF i % 2 = 0 THEN fields[i \div 2]
            ELSE rec[fields[(i - 1) \div 2]]]

\* ------------------------------------------------------------- exceptions
NoExc == [type |-> "", text |-> None]
Exc(type, text) == [type |-> type, text |-> text]
\* KeyboardInterrupt derives from BaseException, the others from Exception.
IsException(e) == e.type # "" /\ e.type # "KeyboardInterrupt"

\* ------------------------------------------------------------- weather_tool.py
WeatherFields ==
    <<"location", "temperature", "condition", "humidity", "wind", "forecast">>
weather_data ==
    [k \in {"san francisco", "new york", "london", "tokyo"} |->
        CASE k = "san francisco" ->
               [location |-> "San Francisco, CA", temperature |-> "68F (20C)",
                condition |-> "Partly cloudy", humidity |-> "65%",
                wind |-> "12 mph NW",
                forecast |-> "Mild and pleasant with some clouds"]
          [] k = "new york" ->
               [location |-> "New York, NY", temperature |-> "72F (22C)",
                condition |-> "Sunny", humidity |-> "58%",
                wind |-> "8 mph SW",
                forecast |-> "Clear skies and comfortable temperatures"]
          [] k = "london" ->
               [location |-> "London, UK", temperature |-> "59F (15C)",
                condition |-> "Light rain", humidity |-> "78%",
                wind |-> "15 mph W",
                forecast |-> "Typical London weather with light showers"]
          [] k = "tokyo" ->
               [location |-> "Tokyo, Japan", temperature |-> "75F (24C)",
                condition |-> "Clear", humidity |-> "62%",
                wind |-> "6 mph E",
                forecast |-> "Beautiful clear day with mild temperatures"]]
FallbackRecord(location) ==
    [location |-> location, temperature |-> "72F (22C)",
     condition |-> "Unknown", humidity |-> "60%", wind |-> "10 mph",
     forecast |-> "Weather data not available for " \o location
                     \o ", but it's probably nice!"]
\* A lookup whose fallback record carries the normalized key.
get_weather_normalized(location) ==
    LET location_key == strip_token(lower_token(location))
    IN  IF location_key \in DOMAIN weather_data
        THEN json_dumps(WeatherFields, weather_data[location_key])
        ELSE json_dumps(WeatherFields, FallbackRecord(location_key))
\* get_weather(location), location a token: the JSON text it returns.
get_weather(location) ==
    LET location_key == strip_token(lower_token(location))
    IN  IF location_key \in DOMAIN weather_data
        THEN json_dumps(WeatherFields, weather_data[location_key])
        ELSE json_dumps(WeatherFields, FallbackRecord(location))

\* ------------------------------------------------------------- prompt_templates.py
format_prompt(user_query) ==
    <<"SYSTEM_PROMPT_TEMPLATE[:user_query]">> \o user_query
        \o <<"SYSTEM_PROMPT_TEMPLATE[user_query:]">>

\* ------------------------------------------------------------- inputs
\* sys.argv[1], "" when there is none.
Argv == {"", "--demo", "-d", "--interactive", "-i", "--help", "-h", "--bogus"}
\* OPENAI_API_KEY after load_dotenv(): not set, set to the empty str, or set.
ApiKeys == {"unset", "empty", "set"}
Queries == {Str("q1"), Str("q2")}
\* Lines typed at the interactive prompt, before strip().
InputLines ==
    {Str("quit"), Str("exit"), Str("q"), Str("QUIT"), Str("demo"),
     Str("reset"), Str(" Reset "), Str(""), Str(" "), Str(" q1 ")}
      \cup Queries
\* Contents of a model response that carries no tool call.
Answers == {Str("a1")}
\* Contents of a model response that carries tool calls.
ToolCallContents == {None, Str("a1")}
ToolNames == {"get_weather", "get_time"}
ArgsLondon == <<"{", "location", "London", "}">>
ArgsTruncated == <<"{", "location", "London">>
ToolArguments == {ArgsLondon, ArgsTruncated}
ToolCall(i, name, arguments) ==
    [id |-> Str("call_" \o ToString(i)),
     function |-> [name |-> name, arguments |-> arguments]]
ToolCallLists ==
    UNION {
        {[i \in 1..n |-> ToolCall(i, f[i][1], f[i][2])] :
            f \in [1..n -> ToolNames \X ToolArguments]} :
        n \in 0..MaxToolCalls}
\* What client.chat.completions.create can return as choices[0].message.
Responses ==
    {[content |-> c, tool_calls |-> <<>>] : c \in Answers}
    \cup {[content |-> c, tool_calls |-> tcs] :
            c \in ToolCallContents, tcs \in ToolCallLists \ {<<>>}}
NoResponse == [content |-> None, tool_calls |-> <<>>]
BackendCallError == Exc("BackendCallError", Str("backend call failed"))
KeyboardInterrupt == Exc("KeyboardInterrupt", None)
ModelCallErrors == {BackendCallError, KeyboardInterrupt}

\* ------------------------------------------------------------- llm_agent.py, pure parts
WEATHER_TOOL_DEFINITION == [type |-> "function", name |-> "get_weather"]
tools == <<WEATHER_TOOL_DEFINITION>>
HistoryCap == 6
demo_queries ==
    << Str("What's the weather like in San Francisco?"),
       Str("I'm planning a trip to London tomorrow. How's the weather?"),
       Str("Compare the weather between New York and Tokyo"),
       Str("What should I wear today if I'm in London?"),
       Str("What's 2 + 2?") >>

\* seq[:n]
FirstN(seq, n) ==
    IF Len(seq) > n THEN SubSeq(seq, 1, n) ELSE seq

\* seq[-n:]
LastN(seq, n) ==
    IF Len(seq) > n THEN SubSeq(seq, Len(seq) - n + 1, Len(seq)) ELSE seq

\* A message list with the history after the current user message.
build_messages_history_last(history, input) ==
    << [role |-> "system", content |-> format_prompt(input)],
       [role |-> "user", content |-> input] >> \o history
\* chat, lines 107-117: the message list of model call #1.
build_messages(history, input) ==
    LET system == [role |-> "system", content |-> format_prompt(input)]
        user == [role |-> "user", content |-> input]
    IN  IF history # <<>>
        THEN <<system>> \o history \o <<user>>
        ELSE <<system, user>>

\* chat, lines 163-167: the assistant message that carries the tool calls.
tool_call_message(msg) ==
    [role |-> "assistant", content |-> msg.content,
     tool_calls |-> msg.tool_calls]

\* A tool message that names the function instead of the call.
tool_message_by_name(tool_call, result) ==
    [role |-> "tool", tool_call_id |-> Str(tool_call.function.name),
     content |-> result]
\* chat, lines 175-179: the message that carries a tool result.
tool_message(tool_call, result) ==
    [role |-> "tool", tool_call_id |-> tool_call.id, content |-> result]

\* chat, lines 212-217: the history after the turn's pair is committed.
commit_history(history, input, answer) ==
    LET extended == history \o
            << [role |-> "user", content |-> input],
               [role |-> "assistant", content |-> answer] >>
    IN  IF Len(extended) > HistoryCap THEN LastN(extended, HistoryCap)
        ELSE extended

\* _execute_tool_call, lines 76-86, up to the call of get_weather:
\* what the body does with one tool call.
unknown_function(name) == <<"Unknown function: ", name>>
\* A dispatch that raises on a name it does not know.
execute_tool_call_strict(tool_call) ==
    IF tool_call.function.name = "get_weather"
    THEN [do |-> "call", exc |-> NoExc, value |-> Str("London")]
    ELSE [do |-> "raise",
          exc |-> Exc("ValueError", unknown_function(tool_call.function.name)),
          value |-> None]
execute_tool_call(tool_call) ==
    LET function_name == tool_call.function.name
        function_args == json_loads(tool_call.function.arguments)
    IN  IF ~function_args.ok
        THEN [do |-> "raise",
              exc |-> Exc("JSONDecodeError", Str("Expecting ',' delimiter")),
              value |-> None]
        ELSE IF function_name = "get_weather"
        THEN IF "location" \in function_args.keys
             THEN [do |-> "call", exc |-> NoExc,
                   value |-> Str(JsonGet(function_args.text, "location"))]
             ELSE [do |-> "raise",
                   exc |-> Exc("KeyError", Str("'location'")),
                   value |-> None]
        ELSE [do |-> "return", exc |-> NoExc,
              value |-> unknown_function(function_name)]

\* A print that does not parse the result.
print_tool_result_plain(tool_result) == NoExc
\* chat, line 172: json.loads(tool_result)['location'] in the print.
print_tool_result(tool_result) ==
    LET parsed == json_loads(tool_result)
    IN  IF ~parsed.ok THEN Exc("JSONDecodeError", Str("Expecting value"))
        ELSE IF "location" \notin parsed.keys
        THEN Exc("KeyError", Str("'location'"))
        ELSE NoExc

\* main.py, lines 22-25 and 46: what setup_environment returns.
setup_environment(key) ==
    IF key \in {"unset", "empty"} THEN "False" ELSE "TracerProvider"

\* main.py, lines 110-126: the function main calls for sys.argv.
main_dispatch(arg) ==
    IF arg = "" THEN "interactive_mode"
    ELSE IF arg \in {"--demo", "-d"} THEN "demonstrate_agent"
    ELSE IF arg \in {"--interactive", "-i"} THEN "interactive_mode"
    ELSE "none"

\* OpenAI(api_key=api_key or os.getenv("OPENAI_API_KEY")), line 50: the
\* client refuses a key that is None and accepts any str.
client_error(key) ==
    IF key = "unset"
    THEN Exc("OpenAIError", Str("The api_key client option must be set"))
    ELSE NoExc

\* ------------------------------------------------------------- state
VARIABLES
    api_key_env,          \* OPENAI_API_KEY as the process sees it
    tracer_provider,      \* main's tracer_provider
    pc,                   \* the statement about to run
    ctx,                  \* interactive_mode / demonstrate_agent frames
    inputs_read,          \* lines read that did not end the loop
    exit_status,          \* -1 while the process runs
    conversation_history, \* of the interactive agent and of the demo agent
    user_input,           \* the line read; chat's user_input
    demo_i,               \* demonstrate_agent's position in demo_queries
    messages,             \* chat's working message list
    assistant_message,    \* response.choices[0].message of model call #1
    tc_i,                 \* position of chat's loop in the tool calls
    tool_result,          \* what _execute_tool_call is returning
    final_message,        \* chat's final_message
    requests,             \* the backend calls of the current turn
    tool_invocations,     \* the get_weather calls of the current turn
    spans,                \* the spans of the open sessions and current turn
    span_stack,           \* the open spans, innermost last
    exc,                  \* the exception being raised
    chat_outcome          \* how the last chat call ended

vars ==
    << api_key_env, tracer_provider, pc, ctx, inputs_read, exit_status,
       conversation_history, user_input, demo_i, messages, assistant_message,
       tc_i, tool_result, final_message, requests, tool_invocations, spans,
       span_stack, exc, chat_outcome >>

turn_locals ==
    << messages, assistant_message, tc_i, tool_result, final_message,
       requests, tool_invocations >>
env_vars == << api_key_env, tracer_provider, inputs_read, exit_status >>

NoOutcome == [kind |-> "none", value |-> None]

\* The agent chat runs on: demonstrate_agent's own, or interactive_mode's.
Agent ==
    IF ctx # <<>> /\ ctx[Len(ctx)] = "demonstrate_agent" THEN "demo"
    ELSE "interactive"

\* ------------------------------------------------------------- spans
Top == IF span_stack = <<>> THEN 0 ELSE span_stack[Len(span_stack)]
Pop(stack) == SubSeq(stack, 1, Len(stack) - 1)

\* tracer.start_as_current_span(name, attributes) entered by `with`.
new_span(name, kind, input, parent) ==
    [name |-> name, kind |-> kind, input |-> input, output |-> None,
     parent |-> parent, closes |-> 0, events |-> {}]
start_span(name, kind, input) ==
    /\ spans' = Append(spans, new_span(name, kind, input, Top))
    /\ span_stack' = Append(span_stack, Len(spans) + 1)

\* A span opened with record_exception=False: ended, nothing recorded.
ended_silently(span, e) == [span EXCEPT !.closes = @ + 1]
\* A span ended by hand after the body, which an exception skips.
ended_unless_raised(span, e) ==
    IF e # NoExc THEN span ELSE [span EXCEPT !.closes = @ + 1]
\* Leaving a `with` block: the span records an Exception that leaves through
\* it and is ended.
ended(span, e) ==
    [span EXCEPT !.closes = @ + 1,
                 !.events = IF IsException(e) THEN @ \cup {e.type} ELSE @]
end_span(e) ==
    /\ spans' = [spans EXCEPT ![Top] = ended(@, e)]
    /\ span_stack' = Pop(span_stack)

\* span.set_attribute(OUTPUT_VALUE, value) on the innermost span.
set_output(log, value) == [log EXCEPT ![Top].output = value]

\* The caller goes on: the turn's locals and its ended spans are dropped.
live_spans(log, stack) == SubSeq(log, 1, Len(stack))
DropTurn ==
    /\ messages' = <<>>
    /\ assistant_message' = NoResponse
    /\ tc_i' = 0
    /\ tool_result' = None
    /\ final_message' = None
    /\ requests' = <<>>
    /\ tool_invocations' = <<>>
    /\ chat_outcome' = NoOutcome

Raise(e) ==
    /\ exc' = e
    /\ pc' = "unwind"

\* ------------------------------------------------------------- Init
Init ==
    /\ api_key_env \in ApiKeys
    /\ tracer_provider = "False"
    /\ pc = "main"
    /\ ctx = <<>>
    /\ inputs_read = 0
    /\ exit_status = -1
    /\ conversation_history = [a \in {"interactive", "demo"} |-> <<>>]
    /\ user_input = None
    /\ demo_i = 0
    /\ messages = <<>>
    /\ assistant_message = NoResponse
    /\ tc_i = 0
    /\ tool_result = None
    /\ final_message = None
    /\ requests = <<>>
    /\ tool_invocations = <<>>
    /\ spans = <<>>
    /\ span_stack = <<>>
    /\ exc = NoExc
    /\ chat_outcome = NoOutcome

\* ------------------------------------------------------------- main.py
\* main, lines 103-126: setup_environment, then the mode sys.argv names.
Main ==
    /\ pc = "main"
    /\ tracer_provider' = setup_environment(api_key_env)
    /\ \E arg \in Argv :
          pc' = CASE main_dispatch(arg) = "demonstrate_agent" -> "demo_enter"
                  [] main_dispatch(arg) = "interactive_mode" -> "im_enter"
                  [] OTHER -> "shutdown"
    /\ UNCHANGED << api_key_env, ctx, inputs_read, exit_status,
                    conversation_history, user_input, demo_i, turn_locals,
                    spans, span_stack, exc, chat_outcome >>

\* main, line 128: tracer_provider.shutdown(); False has no shutdown.
Shutdown ==
    /\ pc = "shutdown"
    /\ pc' = "exited"
    /\ exit_status' = IF tracer_provider = "False" THEN 1 ELSE 0
    /\ UNCHANGED << api_key_env, tracer_provider, ctx, inputs_read,
                    conversation_history, user_input, demo_i, turn_locals,
                    spans, span_stack, exc, chat_outcome >>

\* interactive_mode, lines 60-70: the agent, then the session span.
InteractiveEnter ==
    /\ pc = "im_enter"
    /\ IF client_error(api_key_env) # NoExc
       THEN /\ exc' = client_error(api_key_env)
            /\ pc' = "exited"
            /\ exit_status' = 1
            /\ UNCHANGED << ctx, conversation_history, spans, span_stack >>
       ELSE /\ conversation_history' =
                  [conversation_history EXCEPT !["interactive"] = <<>>]
            /\ start_span(Str("Interactive Agent Session"), "AGENT", None)
            /\ ctx' = <<"interactive_mode">>
            /\ pc' = "im_read"
            /\ UNCHANGED << exc, exit_status >>
    /\ UNCHANGED << api_key_env, tracer_provider, inputs_read, user_input,
                    demo_i, turn_locals, chat_outcome >>

QuitWords == {Str("quit"), Str("exit"), Str("q")}

\* interactive_mode, lines 73-89: one line read and dispatched.  (The list
\* `messages` of lines 70 and 74 is appended to and never read; it is left
\* out.)
ReadInput ==
    /\ pc = "im_read"
    /\ \E line \in InputLines :
          LET input == str_strip(line)
              word == str_lower(input)
          IN  /\ inputs_read < MaxInputs \/ word \in QuitWords
              /\ user_input' = input
              /\ inputs_read' =
                    IF word \in QuitWords THEN inputs_read ELSE inputs_read + 1
              /\ conversation_history' =
                    IF word = Str("reset")
                    THEN [conversation_history EXCEPT !["interactive"] = <<>>]
                    ELSE conversation_history
              /\ pc' = CASE word \in QuitWords -> "im_exit"
                         [] word = Str("demo") -> "demo_enter"
                         [] word = Str("reset") -> "im_read"
                         [] input = Str("") -> "im_read"
                         [] OTHER -> "chat_enter"
    /\ spans' = live_spans(spans, span_stack)
    /\ UNCHANGED << api_key_env, tracer_provider, ctx, exit_status, demo_i,
                    turn_locals, span_stack, exc, chat_outcome >>

\* interactive_mode, lines 73 and 93-95: Ctrl-C at the prompt.
InterruptInput ==
    /\ pc = "im_read"
    /\ exc' = KeyboardInterrupt
    /\ pc' = "im_exit"
    /\ UNCHANGED << env_vars, ctx, conversation_history, user_input, demo_i,
                    turn_locals, spans, span_stack, chat_outcome >>

\* A loop whose try encloses the while: any exception ends the loop.
InteractiveExceptBreaks ==
    /\ pc = "im_except"
    /\ pc' = "im_exit"
    /\ spans' = [spans EXCEPT ![span_stack[1]].events = @ \cup {exc.type}]
    /\ UNCHANGED << env_vars, ctx, conversation_history, user_input, demo_i,
                    span_stack, exc, turn_locals, chat_outcome >>
\* interactive_mode, lines 93-98: the handlers of the loop's try.
InteractiveExcept ==
    /\ pc = "im_except"
    /\ IF exc = KeyboardInterrupt
       THEN /\ pc' = "im_exit"
            /\ UNCHANGED << exc, spans, turn_locals, chat_outcome >>
       ELSE /\ pc' = "im_read"
            /\ exc' = NoExc
            /\ spans' = [live_spans(spans, span_stack) EXCEPT
                            ![Top].events = @ \cup {exc.type}]
            /\ DropTurn
    /\ UNCHANGED << env_vars, ctx, conversation_history, user_input, demo_i,
                    span_stack >>

\* interactive_mode, lines 62-69 left by break: the session span ends.
InteractiveExit ==
    /\ pc = "im_exit"
    /\ end_span(NoExc)
    /\ ctx' = <<>>
    /\ pc' = "shutdown"
    /\ UNCHANGED << env_vars, conversation_history, user_input, demo_i,
                    turn_locals, exc, chat_outcome >>

\* ------------------------------------------------------------- demonstrate_agent
\* lines 242-251: the session span.
DemoEnter ==
    /\ pc = "demo_enter"
    /\ start_span(Str("Agent Demo Session"), "AGENT", None)
    /\ ctx' = Append(ctx, "demonstrate_agent")
    /\ pc' = "demo_agent"
    /\ UNCHANGED << env_vars, conversation_history, user_input, demo_i,
                    turn_locals, exc, chat_outcome >>

\* A demo that goes on with the agent of the demo before it.
DemoAgentKeepsHistory ==
    /\ pc = "demo_agent"
    /\ IF client_error(api_key_env) # NoExc
       THEN /\ Raise(client_error(api_key_env))
            /\ UNCHANGED demo_i
       ELSE /\ demo_i' = 1
            /\ pc' = "demo_loop"
            /\ UNCHANGED exc
    /\ UNCHANGED << env_vars, ctx, conversation_history, user_input,
                    turn_locals, spans, span_stack, chat_outcome >>
\* line 252: agent = LLMAgent().
DemoAgent ==
    /\ pc = "demo_agent"
    /\ IF client_error(api_key_env) # NoExc
       THEN /\ Raise(client_error(api_key_env))
            /\ UNCHANGED << conversation_history, demo_i >>
       ELSE /\ conversation_history' =
                  [conversation_history EXCEPT !["demo"] = <<>>]
            /\ demo_i' = 1
            /\ pc' = "demo_loop"
            /\ UNCHANGED exc
    /\ UNCHANGED << env_vars, ctx, user_input, turn_locals, spans, span_stack,
                    chat_outcome >>

\* lines 263-269: the next query is submitted, or the loop is over.
DemoLoop ==
    /\ pc = "demo_loop"
    /\ IF demo_i <= Len(demo_queries)
       THEN /\ user_input' = demo_queries[demo_i]
            /\ pc' = "chat_enter"
       ELSE /\ pc' = "demo_exit"
            /\ UNCHANGED user_input
    /\ UNCHANGED << env_vars, ctx, conversation_history, demo_i, turn_locals,
                    spans, span_stack, exc, chat_outcome >>

\* lines 244-270 left normally: the session span ends, the caller goes on.
DemoExit ==
    /\ pc = "demo_exit"
    /\ end_span(NoExc)
    /\ ctx' = Pop(ctx)
    /\ pc' = IF Pop(ctx) = <<>> THEN "shutdown" ELSE "im_read"
    /\ demo_i' = 0
    /\ UNCHANGED << env_vars, conversation_history, user_input, turn_locals,
                    exc, chat_outcome >>

\* ------------------------------------------------------------- LLMAgent.chat
\* A chat that appends the user message to the history before the call.
ChatEnterAppendsUser ==
    /\ pc = "chat_enter"
    /\ start_span(Str("Agent Chat"), "AGENT", user_input)
    /\ messages' = build_messages(conversation_history[Agent], user_input)
    /\ conversation_history' =
          [conversation_history EXCEPT
              ![Agent] = LastN(Append(@, [role |-> "user",
                                          content |-> user_input]), HistoryCap)]
    /\ pc' = "llm1_open"
    /\ UNCHANGED << env_vars, ctx, user_input, demo_i, assistant_message,
                    tc_i, tool_result, final_message, requests,
                    tool_invocations, exc, chat_outcome >>
\* lines 99-117: the Agent Chat span and the message list.
ChatEnter ==
    /\ pc = "chat_enter"
    /\ start_span(Str("Agent Chat"), "AGENT", user_input)
    /\ messages' = build_messages(conversation_history[Agent], user_input)
    /\ pc' = "llm1_open"
    /\ UNCHANGED << env_vars, ctx, conversation_history, user_input, demo_i,
                    assistant_message, tc_i, tool_result, final_message,
                    requests, tool_invocations, exc, chat_outcome >>

\* lines 123-136: the span of model call #1.
OpenInitialLLM ==
    /\ pc = "llm1_open"
    /\ start_span(Str("LLM Call - Initial"), "LLM", None)
    /\ pc' = "llm1_call"
    /\ UNCHANGED << env_vars, ctx, conversation_history, user_input, demo_i,
                    turn_locals, exc, chat_outcome >>

\* lines 138-156: model call #1 answers (the backend answers no request
\* that carries an empty key).
initial_request(msgs) ==
    [messages |-> msgs, tools |-> tools, tool_choice |-> "auto"]
CallInitialLLM ==
    /\ pc = "llm1_call"
    /\ api_key_env = "set"
    /\ requests' = Append(requests, initial_request(messages))
    /\ \E response \in Responses :
          /\ assistant_message' = response
          /\ spans' = set_output(spans, response.content)
    /\ pc' = "llm1_close"
    /\ UNCHANGED << env_vars, ctx, conversation_history, user_input, demo_i,
                    messages, tc_i, tool_result, final_message,
                    tool_invocations, span_stack, exc, chat_outcome >>

\* line 138: model call #1 fails or is interrupted.
FailInitialLLM ==
    /\ pc = "llm1_call"
    /\ requests' = Append(requests, initial_request(messages))
    /\ \E e \in ModelCallErrors : Raise(e)
    /\ UNCHANGED << env_vars, ctx, conversation_history, user_input, demo_i,
                    messages, assistant_message, tc_i, tool_result,
                    final_message, tool_invocations, spans, span_stack,
                    chat_outcome >>

\* An initial LLM span whose `with` block extends over the tool dispatch.
CloseInitialLLMKeepsSpan ==
    /\ pc = "llm1_close"
    /\ IF assistant_message.tool_calls # <<>>
       THEN /\ messages' = Append(messages, tool_call_message(assistant_message))
            /\ tc_i' = 1
            /\ pc' = "tool_loop"
            /\ UNCHANGED final_message
       ELSE /\ final_message' = assistant_message.content
            /\ pc' = "commit"
            /\ UNCHANGED << messages, tc_i >>
    /\ UNCHANGED << env_vars, ctx, conversation_history, user_input, demo_i,
                    assistant_message, tool_result, requests,
                    tool_invocations, spans, span_stack, exc, chat_outcome >>
\* lines 134-167: the LLM span ends; the branch on the tool calls.
CloseInitialLLM ==
    /\ pc = "llm1_close"
    /\ end_span(NoExc)
    /\ IF assistant_message.tool_calls # <<>>
       THEN /\ messages' = Append(messages, tool_call_message(assistant_message))
            /\ tc_i' = 1
            /\ pc' = "tool_loop"
            /\ UNCHANGED final_message
       ELSE /\ final_message' = assistant_message.content
            /\ pc' = "commit"
            /\ UNCHANGED << messages, tc_i >>
    /\ UNCHANGED << env_vars, ctx, conversation_history, user_input, demo_i,
                    assistant_message, tool_result, requests,
                    tool_invocations, exc, chat_outcome >>

\* lines 170-171 and 66-75: the next tool call enters _execute_tool_call,
\* which opens its TOOL span; after the last one, line 182 opens the span of
\* model call #2.
ToolLoop ==
    /\ pc = "tool_loop"
    /\ IF tc_i <= Len(assistant_message.tool_calls)
       THEN LET tool_call == assistant_message.tool_calls[tc_i]
            IN  /\ start_span(<<"Tool: ", tool_call.function.name>>, "TOOL",
                              tool_call.function.arguments)
                /\ pc' = "tool_body"
       ELSE /\ start_span(Str("LLM Call - Final"), "LLM", None)
            /\ pc' = "llm2_call"
    /\ UNCHANGED << env_vars, ctx, conversation_history, user_input, demo_i,
                    turn_locals, exc, chat_outcome >>

\* _execute_tool_call, lines 76-86.
ToolBody ==
    /\ pc = "tool_body"
    /\ LET step == execute_tool_call(assistant_message.tool_calls[tc_i])
       IN  CASE step.do = "raise" ->
                  /\ Raise(step.exc)
                  /\ UNCHANGED << tool_result, tool_invocations, spans,
                                  span_stack >>
             [] step.do = "call" ->
                  /\ tool_invocations' = Append(tool_invocations, step.value)
                  /\ start_span(Str("Weather Tool Execution"), "TOOL",
                                step.value)
                  /\ pc' = "weather_body"
                  /\ UNCHANGED << tool_result, exc >>
             [] OTHER ->
                  /\ tool_result' = step.value
                  /\ spans' = set_output(spans, step.value)
                  /\ pc' = "tool_return"
                  /\ UNCHANGED << tool_invocations, span_stack, exc >>
    /\ UNCHANGED << env_vars, ctx, conversation_history, user_input, demo_i,
                    messages, assistant_message, tc_i, final_message,
                    requests, chat_outcome >>

\* get_weather, lines 69-98: the lookup, inside its own span.
WeatherBody ==
    /\ pc = "weather_body"
    /\ LET location == tool_invocations[Len(tool_invocations)]
           result == get_weather(location[1])
       IN  /\ tool_result' = result
           /\ spans' = set_output(spans, result)
    /\ pc' = "weather_return"
    /\ UNCHANGED << env_vars, ctx, conversation_history, user_input, demo_i,
                    messages, assistant_message, tc_i, final_message,
                    requests, tool_invocations, span_stack, exc,
                    chat_outcome >>

\* get_weather returns: its span ends; _execute_tool_call, line 81.
WeatherReturn ==
    /\ pc = "weather_return"
    /\ spans' = [spans EXCEPT
                    ![Top] = ended(@, NoExc),
                    ![span_stack[Len(span_stack) - 1]].output = tool_result]
    /\ span_stack' = Pop(span_stack)
    /\ pc' = "tool_return"
    /\ UNCHANGED << env_vars, ctx, conversation_history, user_input, demo_i,
                    turn_locals, exc, chat_outcome >>

\* _execute_tool_call returns (lines 82, 86): the TOOL span ends.
ToolReturn ==
    /\ pc = "tool_return"
    /\ end_span(NoExc)
    /\ pc' = "tool_post"
    /\ UNCHANGED << env_vars, ctx, conversation_history, user_input, demo_i,
                    turn_locals, exc, chat_outcome >>

\* chat, lines 172-179: the result is printed and appended.
ToolPost ==
    /\ pc = "tool_post"
    /\ IF print_tool_result(tool_result) # NoExc
       THEN /\ Raise(print_tool_result(tool_result))
            /\ UNCHANGED << messages, tc_i >>
       ELSE /\ messages' = Append(messages,
                  tool_message(assistant_message.tool_calls[tc_i], tool_result))
            /\ tc_i' = tc_i + 1
            /\ pc' = "tool_loop"
            /\ UNCHANGED exc
    /\ UNCHANGED << env_vars, ctx, conversation_history, user_input, demo_i,
                    assistant_message, tool_result, final_message, requests,
                    tool_invocations, spans, span_stack, chat_outcome >>

\* lines 194-207: model call #2 answers.
final_request(msgs) ==
    [messages |-> msgs, tools |-> <<>>, tool_choice |-> ""]
CallFinalLLM ==
    /\ pc = "llm2_call"
    /\ api_key_env = "set"
    /\ requests' = Append(requests, final_request(messages))
    /\ \E content \in Answers :
          /\ final_message' = content
          /\ spans' = set_output(spans, content)
    /\ pc' = "llm2_close"
    /\ UNCHANGED << env_vars, ctx, conversation_history, user_input, demo_i,
                    messages, assistant_message, tc_i, tool_result,
                    tool_invocations, span_stack, exc, chat_outcome >>

\* line 194: model call #2 fails or is interrupted.
FailFinalLLM ==
    /\ pc = "llm2_call"
    /\ requests' = Append(requests, final_request(messages))
    /\ \E e \in ModelCallErrors : Raise(e)
    /\ UNCHANGED << env_vars, ctx, conversation_history, user_input, demo_i,
                    messages, assistant_message, tc_i, tool_result,
                    final_message, tool_invocations, spans, span_stack,
                    chat_outcome >>

\* line 190 left: the span of model call #2 ends.
CloseFinalLLM ==
    /\ pc = "llm2_close"
    /\ end_span(NoExc)
    /\ pc' = "commit"
    /\ UNCHANGED << env_vars, ctx, conversation_history, user_input, demo_i,
                    turn_locals, exc, chat_outcome >>

\* A commit of the content of the initial response on both branches.
CommitInitialContent ==
    /\ pc = "commit"
    /\ conversation_history' =
          [conversation_history EXCEPT
              ![Agent] = commit_history(@, user_input,
                                        assistant_message.content)]
    /\ spans' = set_output(spans, assistant_message.content)
    /\ pc' = "chat_close"
    /\ UNCHANGED << env_vars, ctx, user_input, demo_i, turn_locals, span_stack,
                    exc, chat_outcome >>
\* A commit that persists the working message list after the system message.
CommitWorkingList ==
    /\ pc = "commit"
    /\ conversation_history' =
          [conversation_history EXCEPT
              ![Agent] = LastN(Append(Tail(messages),
                                      [role |-> "assistant",
                                       content |-> final_message]),
                               HistoryCap)]
    /\ spans' = set_output(spans, final_message)
    /\ pc' = "chat_close"
    /\ UNCHANGED << env_vars, ctx, user_input, demo_i, turn_locals, span_stack,
                    exc, chat_outcome >>
\* lines 211-219: the pair is committed, the Agent Chat span gets its output.
Commit ==
    /\ pc = "commit"
    /\ conversation_history' =
          [conversation_history EXCEPT
              ![Agent] = commit_history(@, user_input, final_message)]
    /\ spans' = set_output(spans, final_message)
    /\ pc' = "chat_close"
    /\ UNCHANGED << env_vars, ctx, user_input, demo_i, turn_locals, span_stack,
                    exc, chat_outcome >>

\* line 220: chat returns; its span ends.
ChatClose ==
    /\ pc = "chat_close"
    /\ end_span(NoExc)
    /\ chat_outcome' = [kind |-> "return", value |-> final_message]
    /\ pc' = "chat_return"
    /\ UNCHANGED << env_vars, ctx, conversation_history, user_input, demo_i,
                    turn_locals, exc >>

\* main.py, lines 89-90, and demonstrate_agent, lines 265-267: the caller
\* prints the response and goes on.
ChatReturn ==
    /\ pc = "chat_return"
    /\ IF Agent = "demo"
       THEN /\ demo_i' = demo_i + 1
            /\ pc' = "demo_loop"
       ELSE /\ pc' = "im_read"
            /\ UNCHANGED demo_i
    /\ spans' = live_spans(spans, span_stack)
    /\ DropTurn
    /\ UNCHANGED << env_vars, ctx, conversation_history, user_input,
                    span_stack, exc >>

\* ------------------------------------------------------------- exceptions
\* The try of interactive_mode's loop is inside the session span; nothing
\* else in the program catches.
HandlerDepth ==
    IF ctx # <<>> /\ ctx[1] = "interactive_mode" THEN 1 ELSE 0

\* The exception leaves the innermost `with` block: that span ends.
Unwind ==
    /\ pc = "unwind"
    /\ Len(span_stack) > HandlerDepth
    /\ end_span(exc)
    /\ chat_outcome' =
          IF spans[Top].name = Str("Agent Chat")
          THEN [kind |-> "raise", value |-> exc.text]
          ELSE chat_outcome
    /\ ctx' = IF spans[Top].name = Str("Agent Demo Session") THEN Pop(ctx)
              ELSE ctx
    /\ UNCHANGED << env_vars, pc, conversation_history, user_input, demo_i,
                    turn_locals, exc >>

\* The exception reaches the loop's try, or leaves main: a traceback and
\* exit status 1.
Propagate ==
    /\ pc = "unwind"
    /\ Len(span_stack) = HandlerDepth
    /\ IF HandlerDepth = 1
       THEN /\ pc' = "im_except"
            /\ UNCHANGED exit_status
       ELSE /\ pc' = "exited"
            /\ exit_status' = 1
    /\ UNCHANGED << api_key_env, tracer_provider, inputs_read, ctx,
                    conversation_history, user_input, demo_i, turn_locals,
                    spans, span_stack, exc, chat_outcome >>

Next ==
    \/ Main
    \/ Shutdown
    \/ InteractiveEnter
    \/ ReadInput
    \/ InterruptInput
    \/ InteractiveExcept
    \/ InteractiveExit
    \/ DemoEnter
    \/ DemoAgent
    \/ DemoLoop
    \/ DemoExit
    \/ ChatEnter
    \/ OpenInitialLLM
    \/ CallInitialLLM
    \/ FailInitialLLM
    \/ CloseInitialLLM
    \/ ToolLoop
    \/ ToolBody
    \/ WeatherBody
    \/ WeatherReturn
    \/ ToolReturn
    \/ ToolPost
    \/ CallFinalLLM
    \/ FailFinalLLM
    \/ CloseFinalLLM
    \/ Commit
    \/ ChatClose
    \/ ChatReturn
    \/ Unwind
    \/ Propagate

Spec == Init /\ [][Next]_vars

\* ------------------------------------------------------------- get_weather alone
\* get_weather called by itself, on location strings of every shape: table
\* keys in other cases and with blanks around them, names that are no key,
\* the empty and the blank string.
MaxLookups == 2
Locations ==
    {"london", "London", " LONDON ", "LONDON", "London, UK", "Tokyo",
     " tokyo", "NEW YORK", "New  York", "San Francisco ", "Paris", " Paris ",
     "", " "}

WeatherInit ==
    /\ api_key_env = "set"
    /\ tracer_provider = "TracerProvider"
    /\ pc = "weather_call"
    /\ ctx = <<>>
    /\ inputs_read = 0
    /\ exit_status = -1
    /\ conversation_history = [a \in {"interactive", "demo"} |-> <<>>]
    /\ user_input = None
    /\ demo_i = 0
    /\ messages = <<>>
    /\ assistant_message = NoResponse
    /\ tc_i = 0
    /\ tool_result = None
    /\ final_message = None
    /\ requests = <<>>
    /\ tool_invocations = <<>>
    /\ spans = <<>>
    /\ span_stack = <<>>
    /\ exc = NoExc
    /\ chat_outcome = NoOutcome

\* get_weather, lines 11-32: the call, and the span it opens.
WeatherCall ==
    /\ pc = "weather_call"
    /\ Len(tool_invocations) < MaxLookups
    /\ \E location \in Locations :
          /\ tool_invocations' = Append(tool_invocations, Str(location))
          /\ start_span(Str("Weather Tool Execution"), "TOOL", Str(location))
    /\ pc' = "weather_body"
    /\ UNCHANGED << env_vars, ctx, conversation_history, user_input, demo_i,
                    messages, assistant_message, tc_i, tool_result,
                    final_message, requests, exc, chat_outcome >>

\* get_weather, lines 81 and 98: the result is returned, the span ends.
WeatherResult ==
    /\ pc = "weather_return"
    /\ end_span(NoExc)
    /\ pc' = "weather_call"
    /\ UNCHANGED << env_vars, ctx, conversation_history, user_input, demo_i,
                    turn_locals, exc, chat_outcome >>

WeatherNext ==
    \/ WeatherCall
    \/ WeatherBody
    \/ WeatherResult

WeatherSpec == WeatherInit /\ [][WeatherNext]_vars
\* ------------------------------------------------------------- properties
SessionNames ==
    {Str("Interactive Agent Session"), Str("Agent Demo Session")}
IsOpen(i) == \E k \in 1..Len(span_stack) : span_stack[k] = i
\* The spans of the current turn, in the order they were opened.
TurnSpans == {i \in 1..Len(spans) : spans[i].name \notin SessionNames}
SpansOfKind(kind) == {i \in TurnSpans : spans[i].kind = kind}
\* The agent whose chat opened the Agent Chat span of the log.
TurnAgent ==
    IF \E i \in TurnSpans :
          /\ spans[i].name = Str("Agent Chat")
          /\ spans[i].parent # 0
          /\ spans[spans[i].parent].name = Str("Agent Demo Session")
    THEN "demo" ELSE "interactive"
\* The history the turn began with, as model call #1 received it.
TurnStartHistory ==
    SubSeq(requests[1].messages, 2, Len(requests[1].messages) - 1)
\* A turn has issued model call #1 and has not reached its commit step.
TurnUncommitted == requests # <<>> /\ pc \notin {"chat_close", "chat_return"}
\* The tool call chat's loop is at.
CurrentToolCall == assistant_message.tool_calls[tc_i]
InToolLoop == tc_i >= 1 /\ tc_i <= Len(assistant_message.tool_calls)
ApologyFor(e) == <<"Sorry, I encountered an error: ">> \o e.text
KeyMissing == api_key_env \in {"unset", "empty"}
InteractiveRan ==
    spans # <<>> /\ spans[1].name = Str("Interactive Agent Session")

\* C1: every exception raised in a chat call (model call #1, a tool dispatch,
\* model call #2) is caught inside chat: no chat call ends by raising, and a
\* failed call returns the apology text that embeds the error's text.
C1_ChatReturnsApology ==
    (/\ IsException(exc)
     /\ TurnSpans # {}
     /\ \A i \in TurnSpans : ~IsOpen(i))
      => chat_outcome = [kind |-> "return", value |-> ApologyFor(exc)]

\* C2: a turn that fails leaves the conversation history of its agent as it
\* was when the turn began (it stays so from model call #1 until the commit
\* step), and a history changes only in the commit step of chat, by
\* reset_conversation, or when demonstrate_agent makes its new agent.
C2_HistoryStep ==
    /\ (conversation_history'["interactive"]
            # conversation_history["interactive"]
          => \/ pc = "commit" /\ Agent = "interactive"
             \/ /\ pc = "im_read"
                /\ str_lower(user_input') = Str("reset")
                /\ conversation_history'["interactive"] = <<>>)
    /\ (conversation_history'["demo"] # conversation_history["demo"]
          => \/ pc = "commit" /\ Agent = "demo"
             \/ pc = "demo_agent" /\ conversation_history'["demo"] = <<>>)
C2_FailedTurnKeepsHistory ==
    /\ [](TurnUncommitted
            => conversation_history[TurnAgent] = TurnStartHistory)
    /\ [][C2_HistoryStep]_vars
C2_Witness ==
    /\ chat_outcome.kind = "raise"
    /\ tool_result # None
    /\ conversation_history[TurnAgent] # <<>>
    /\ conversation_history[TurnAgent] = TurnStartHistory

\* C3: a conversation history never holds more than 6 messages, and a pair
\* committed to a full history evicts the oldest pair: the two other pairs
\* keep their order and the new pair is last.
C3_HistoryCappedFifo ==
    /\ \A a \in DOMAIN conversation_history :
          Len(conversation_history[a]) <= HistoryCap
    /\ (pc = "chat_close" /\ Len(TurnStartHistory) = HistoryCap
          => LET h == conversation_history[Agent]
             IN  /\ Len(h) = HistoryCap
                 /\ SubSeq(h, 1, HistoryCap - 2)
                        = SubSeq(TurnStartHistory, 3, HistoryCap)
                 /\ h[HistoryCap - 1]
                        = [role |-> "user", content |-> user_input]
                 /\ h[HistoryCap]
                        = [role |-> "assistant", content |-> final_message])
C3_Witness ==
    /\ pc = "chat_close"
    /\ Len(TurnStartHistory) = HistoryCap
    /\ TurnStartHistory[1] # TurnStartHistory[3]
    /\ TurnStartHistory[1] # [role |-> "user", content |-> user_input]

C5_SpansClosedOnce ==
    /\ \A i \in 1..Len(spans) :
          spans[i].closes = IF IsOpen(i) THEN 0 ELSE 1
    /\ \A k \in 1..Len(span_stack) :
          /\ span_stack[k] \in 1..Len(spans)
          /\ spans[span_stack[k]].parent
                = IF k = 1 THEN 0 ELSE span_stack[k - 1]
    /\ (pc \in {"chat_return", "im_read", "im_except", "im_exit",
                "demo_agent", "demo_loop", "demo_exit"}
          => \A k \in 1..Len(span_stack) :
                spans[span_stack[k]].name \in SessionNames)
    /\ (pc = "tool_post" => spans[Top].name = Str("Agent Chat"))
    /\ (pc \in {"shutdown", "exited"} => span_stack = <<>>)
C5_Witness ==
    /\ pc = "exited"
    /\ exc = BackendCallError
    /\ Len(spans) >= 4
    /\ \A i \in 1..Len(spans) : spans[i].closes = 1

\* C6: a tool call with valid JSON arguments and a name that is not
\* registered does not make _execute_tool_call raise; the call returns the
\* text "Unknown function: " followed by the name, its TOOL span has that
\* text as output value and is ended when it returns.
UnknownToolCall ==
    /\ InToolLoop
    /\ CurrentToolCall.function.name # "get_weather"
    /\ json_loads(CurrentToolCall.function.arguments).ok
C6_UnknownToolSentinel ==
    UnknownToolCall
      => /\ ~(pc = "unwind" /\ Top # 0 /\ spans[Top].kind = "TOOL")
         /\ (pc = "tool_post"
               => LET span == spans[Len(spans)]
                      name == CurrentToolCall.function.name
                  IN  /\ tool_result = <<"Unknown function: ", name>>
                      /\ span.name = <<"Tool: ", name>>
                      /\ span.kind = "TOOL"
                      /\ span.output = <<"Unknown function: ", name>>
                      /\ span.closes = 1
                      /\ ~IsOpen(Len(spans))
                      /\ exc = NoExc)
C6_Witness ==
    /\ UnknownToolCall
    /\ pc = "tool_post"
    /\ tc_i = 2

\* C7: a tool call to a name that is not registered does not abort the turn:
\* once _execute_tool_call has returned the sentinel text, chat raises
\* nothing over it, so the sentinel is appended as a tool message and the
\* final model call is issued.
C7_UnknownToolKeepsTurn ==
    (/\ UnknownToolCall
     /\ tool_result = <<"Unknown function: ", CurrentToolCall.function.name>>)
      => /\ exc = NoExc
         /\ chat_outcome.kind # "raise"

\* C8: a tool call whose arguments are not valid JSON raises for that call
\* whatever its name; one TOOL span is opened and ended for it, no tool
\* function is invoked, no tool message is appended for it and model call #2
\* is not issued; the failure aborts the current turn only, so it neither
\* ends the session that submitted the turn nor the process.
BadArguments == Exc("JSONDecodeError", Str("Expecting ',' delimiter"))
C8_BadArgumentsRaise ==
    /\ (InToolLoop /\ pc \in {"weather_body", "weather_return",
                               "tool_return", "tool_post"}
          => json_loads(CurrentToolCall.function.arguments).ok)
    /\ (exc = BadArguments
          => /\ Cardinality({i \in SpansOfKind("TOOL") :
                    spans[i].name[1] = "Tool: "}) = tc_i
             /\ Len(tool_invocations) = tc_i - 1
             /\ Len(messages) = Len(requests[1].messages) + tc_i
             /\ Len(requests) = 1)
C8_BadArgumentsAbortTurnOnly ==
    /\ C8_BadArgumentsRaise
    /\ (exc = BadArguments
          => /\ pc # "exited"
             /\ \A i \in 1..Len(spans) :
                   spans[i].name \in SessionNames => spans[i].closes = 0)

\* C9: in interactive mode no Exception raised while an input is processed
\* (by a chat turn or by the inline demo) ends the loop: it reaches the
\* loop's handler, after which the loop reads the next input; the loop ends
\* only on quit, exit or q, or on a keyboard interrupt.
C9_LoopStep ==
    (pc = "im_except" /\ IsException(exc)) => pc' = "im_read"
C9_ErrorsKeepLoopRunning ==
    /\ [](InteractiveRan /\ IsException(exc)
            => /\ pc \in {"unwind", "im_except"}
               /\ IsOpen(1))
    /\ [](InteractiveRan /\ pc \in {"im_exit", "shutdown", "exited"}
            => \/ str_lower(user_input) \in QuitWords
               \/ exc = KeyboardInterrupt)
    /\ [][C9_LoopStep]_vars
C9_Witness ==
    /\ pc = "im_read"
    /\ InteractiveRan
    /\ spans[1].events = {"BackendCallError", "JSONDecodeError"}
    /\ inputs_read < MaxInputs

\* C10: with OPENAI_API_KEY missing the process exits with a non-zero status
\* before any turn: the interactive loop reads no input, the demo submits no
\* query and no chat call is made.
C10_MissingKeyExitsAtStartup ==
    KeyMissing
      => /\ pc \notin {"im_read", "demo_loop", "chat_enter"}
         /\ TurnSpans = {}
         /\ (pc = "exited" => exit_status > 0)

\* C11: in interactive mode the line "reset", in any case and with blanks
\* around it, empties the history of the interactive agent whatever it held;
\* the step issues no model call and opens no span, and the loop goes on to
\* read the next line.
C11_ResetStep ==
    (/\ pc = "im_read"
     /\ inputs_read' = inputs_read + 1
     /\ user_input' \in {Str("reset"), Str("Reset")})
      => /\ conversation_history'["interactive"] = <<>>
         /\ conversation_history'["demo"] = conversation_history["demo"]
         /\ requests' = <<>>
         /\ span_stack' = span_stack
         /\ \A i \in 1..Len(spans') : spans'[i].name \in SessionNames
         /\ pc' = "im_read"
C11_ResetClearsHistory ==
    /\ [](pc = "im_read" /\ user_input \in {Str("reset"), Str("Reset")}
            => /\ conversation_history["interactive"] = <<>>
               /\ requests = <<>>
               /\ TurnSpans = {})
    /\ [][C11_ResetStep]_vars
C11_Witness ==
    /\ pc = "im_read"
    /\ user_input = Str("Reset")
    /\ inputs_read >= 3
    /\ conversation_history["interactive"] = <<>>
    /\ conversation_history["demo"] # <<>>
    /\ spans[1].events # {}

\* C12: a turn that reaches its final answer (the content of the initial
\* response when it carries no tool call, the content of model call #2
\* otherwise) has that answer as the last assistant message of the history,
\* after the user message with the turn's input; the Agent Chat span has the
\* answer as output value while it is still open, and chat returns the answer.
FinalSpanOutput ==
    LET i == CHOOSE j \in TurnSpans : spans[j].name = Str("LLM Call - Final")
    IN  spans[i].output
FinalAnswer ==
    IF assistant_message.tool_calls = <<>> THEN assistant_message.content
    ELSE FinalSpanOutput
AgentChatSpan == CHOOSE i \in TurnSpans : spans[i].name = Str("Agent Chat")
C12_FinalAnswerCommitted ==
    pc \in {"chat_close", "chat_return"}
      => LET h == conversation_history[TurnAgent]
         IN  /\ Len(h) >= 2
             /\ h[Len(h) - 1] = [role |-> "user", content |-> user_input]
             /\ h[Len(h)] = [role |-> "assistant", content |-> FinalAnswer]
             /\ spans[AgentChatSpan].input = user_input
             /\ spans[AgentChatSpan].output = FinalAnswer
             /\ (pc = "chat_close"
                   => /\ IsOpen(AgentChatSpan)
                      /\ spans[AgentChatSpan].closes = 0)
             /\ (pc = "chat_return"
                   => /\ spans[AgentChatSpan].closes = 1
                      /\ chat_outcome
                            = [kind |-> "return", value |-> FinalAnswer])
C12_Witness ==
    /\ pc = "chat_return"
    /\ Len(assistant_message.tool_calls) = 2
    /\ assistant_message.content # FinalAnswer
    /\ Len(conversation_history[TurnAgent]) = HistoryCap
    /\ chat_outcome = [kind |-> "return", value |-> Str("a1")]

\* C13: get_weather returns a record for every location string.  When the
\* lower-cased, trimmed string is one of the four table keys, the record is
\* the one stored under that key, field by field; otherwise it is the
\* fallback record, whose location field is the string as it was passed,
\* blanks and case included.
TableKeys == {"san francisco", "new york", "london", "tokyo"}
LastLocation == tool_invocations[Len(tool_invocations)][1]
ResultField(f) == JsonGet(tool_result, f)
C13_GetWeatherTotal ==
    pc = "weather_return"
      => LET key == strip_token(lower_token(LastLocation))
         IN  /\ json_loads(tool_result).ok
             /\ json_loads(tool_result).keys
                   = {WeatherFields[i] : i \in 1..Len(WeatherFields)}
             /\ spans[Top].output = tool_result
             /\ spans[Top].input = Str(LastLocation)
             /\ exc = NoExc
             /\ IF key \in TableKeys
                THEN \A i \in 1..Len(WeatherFields) :
                        ResultField(WeatherFields[i])
                            = weather_data[key][WeatherFields[i]]
                ELSE /\ ResultField("location") = LastLocation
                     /\ ResultField("temperature") = "72F (22C)"
                     /\ ResultField("condition") = "Unknown"
                     /\ ResultField("humidity") = "60%"
                     /\ ResultField("wind") = "10 mph"
C13_Witness ==
    /\ pc = "weather_return"
    /\ tool_invocations = <<Str(" LONDON "), Str(" Paris ")>>
    /\ JsonGet(spans[1].output, "location") = "London, UK"
    /\ JsonGet(spans[1].output, "condition") = "Light rain"
    /\ ResultField("location") = " Paris "
    /\ ResultField("condition") = "Unknown"

\* C14, as stated: within a turn every LLM span and every TOOL span has the
\* turn's Agent Chat span as its direct parent (so none is opened while an
\* LLM span or another TOOL span is open), and the initial LLM span is ended
\* before the first TOOL span is opened.
InitialLLMSpan ==
    CHOOSE i \in TurnSpans : spans[i].name = Str("LLM Call - Initial")
RECURSIVE Ancestors(_)
Ancestors(i) ==
    IF spans[i].parent = 0 THEN {}
    ELSE {spans[i].parent} \cup Ancestors(spans[i].parent)
DispatchSpans == {i \in TurnSpans : spans[i].name[1] = "Tool: "}
DispatchSpan(k) ==
    CHOOSE i \in DispatchSpans :
        Cardinality({j \in DispatchSpans : j <= i}) = k
C15_ToolsInOrderThenFinalCall ==
    LET tcs == assistant_message.tool_calls
        n == Len(tcs)
        d == Cardinality(DispatchSpans)
    IN  /\ d <= n
        /\ (InToolLoop
              => d = IF pc = "tool_loop" THEN tc_i - 1 ELSE tc_i)
        /\ \A k \in 1..d :
              /\ spans[DispatchSpan(k)].name
                    = <<"Tool: ", tcs[k].function.name>>
              /\ spans[DispatchSpan(k)].input = tcs[k].function.arguments
              /\ (k < d => spans[DispatchSpan(k)].closes = 1)
        /\ \A k \in 1..Len(tool_invocations) :
              tool_invocations[k]
                  = Str(JsonGet(tcs[k].function.arguments, "location"))
        /\ ((\E i \in TurnSpans : spans[i].name = Str("LLM Call - Final"))
              => /\ n >= 1
                 /\ d = n
                 /\ Len(tool_invocations) = n
                 /\ \A k \in 1..n : spans[DispatchSpan(k)].closes = 1)
        /\ (Len(requests) = 2
              => LET first == requests[1].messages
                     final == requests[2].messages
                 IN  /\ Len(final) = Len(first) + 1 + n
                     /\ SubSeq(final, 1, Len(first)) = first
                     /\ final[Len(first) + 1]
                           = [role |-> "assistant",
                              content |-> assistant_message.content,
                              tool_calls |-> tcs]
                     /\ \A k \in 1..n :
                           /\ final[Len(first) + 1 + k]
                                 = [role |-> "tool",
                                    tool_call_id |-> tcs[k].id,
                                    content |-> spans[DispatchSpan(k)].output]
                           /\ spans[DispatchSpan(k)].output
                                 = get_weather(JsonGet(
                                       tcs[k].function.arguments, "location")))
C15_Witness ==
    /\ pc = "llm2_close"
    /\ Len(requests) = 2
    /\ Len(assistant_message.tool_calls) = 2
    /\ Len(requests[2].messages) = HistoryCap + 5
    /\ requests[2].messages[HistoryCap + 4].tool_call_id = Str("call_1")
    /\ requests[2].messages[HistoryCap + 5].tool_call_id = Str("call_2")

\* C16: a turn issues at most two model calls.  Model call #1 offers the tool
\* schemas with tool_choice auto.  Model call #2 offers no tools; it is
\* issued only when the initial response carries at least one tool call and
\* every dispatch returned, and by the end of every such turn it has been
\* issued.
AllDispatched ==
    /\ assistant_message.tool_calls # <<>>
    /\ Cardinality(DispatchSpans) = Len(assistant_message.tool_calls)
    /\ \A i \in DispatchSpans :
          spans[i].closes = 1 /\ spans[i].events = {}
C16_CallShapes ==
    /\ Len(requests) <= 2
    /\ (Len(requests) >= 1
          => /\ requests[1].tools = <<WEATHER_TOOL_DEFINITION>>
             /\ requests[1].tool_choice = "auto")
    /\ (Len(requests) = 2
          => /\ requests[2].tools = <<>>
             /\ AllDispatched)
C16_SecondCallIffDispatched ==
    /\ C16_CallShapes
    /\ (chat_outcome.kind # "none" /\ AllDispatched => Len(requests) = 2)

\* C17: whatever turns (successful or failed) and resets came before, each
\* conversation history has even length and alternates user and assistant
\* messages that carry a role and a content and nothing else: no system
\* message, no tool message, no assistant message with tool_calls.
C17_HistoryAlternates ==
    \A a \in DOMAIN conversation_history :
        LET h == conversation_history[a]
        IN  /\ Len(h) % 2 = 0
            /\ \A i \in 1..Len(h) :
                  /\ DOMAIN h[i] = {"role", "content"}
                  /\ h[i].role = IF i % 2 = 1 THEN "user" ELSE "assistant"
C17_Witness ==
    /\ pc = "chat_close"
    /\ TurnAgent = "interactive"
    /\ Len(messages) = Len(requests[1].messages) + 3
    /\ Len(conversation_history["interactive"]) = 2
    /\ conversation_history["demo"] # <<>>
    /\ spans[1].events # {}

\* C18: the message list of model call #1 is one system message whose content
\* is the template with the turn's input in the place of {user_query}, then
\* the agent's whole conversation history in order, then one user message
\* with the input; the history stays what it was while the working list is
\* built and extended, up to the commit step.
ExpectedFirstMessages ==
    << [role |-> "system",
        content |-> <<"SYSTEM_PROMPT_TEMPLATE[:user_query]">> \o user_input
                       \o <<"SYSTEM_PROMPT_TEMPLATE[user_query:]">>] >>
      \o conversation_history[TurnAgent]
      \o << [role |-> "user", content |-> user_input] >>
C18_FirstCallMessages ==
    /\ (pc \in {"llm1_open", "llm1_call"} => messages = ExpectedFirstMessages)
    /\ (TurnUncommitted
          => /\ requests[1].messages = ExpectedFirstMessages
             /\ Len(messages) >= Len(ExpectedFirstMessages)
             /\ SubSeq(messages, 1, Len(ExpectedFirstMessages))
                   = ExpectedFirstMessages)
C18_Witness ==
    /\ pc = "tool_loop"
    /\ tc_i = 3
    /\ Len(conversation_history[TurnAgent]) = 4
    /\ Len(requests[1].messages) = 6
    /\ Len(messages) = 9
    /\ requests[1].messages[2] # requests[1].messages[4]

\* C19: when an Exception is raised in a turn, each span it leaves (the LLM
\* span of a failing model call or the "Tool:" span of a failing dispatch,
\* and the Agent Chat span around it) has the exception among its events
\* once it is ended, also when the interactive loop is about to swallow the
\* exception; the spans that had ended before carry no event.
SentinelParse == Exc("JSONDecodeError", Str("Expecting value"))
ExitedByError ==
    {AgentChatSpan}
      \cup (IF exc \in {BackendCallError, BadArguments} THEN {Len(spans)}
            ELSE {})
C19_ErrorRecordedOnExit ==
    (IsException(exc) /\ TurnSpans # {})
      => /\ exc \in {BackendCallError, BadArguments, SentinelParse}
         /\ (exc = BackendCallError => spans[Len(spans)].kind = "LLM")
         /\ (exc = BadArguments
               => /\ spans[Len(spans)].kind = "TOOL"
                  /\ spans[Len(spans)].name[1] = "Tool: ")
         /\ \A i \in ExitedByError :
               IF IsOpen(i)
               THEN pc = "unwind" /\ spans[i].events = {}
               ELSE spans[i].closes = 1 /\ spans[i].events = {exc.type}
         /\ \A i \in TurnSpans \ ExitedByError :
               spans[i].closes = 1 /\ spans[i].events = {}
         /\ (pc \in {"im_except", "exited"}
               => \A i \in ExitedByError : ~IsOpen(i))
C19_Witness ==
    /\ pc = "im_except"
    /\ exc = BadArguments
    /\ tc_i = 2
    /\ spans[Len(spans)].events = {"JSONDecodeError"}
    /\ spans[AgentChatSpan].events = {"JSONDecodeError"}
    /\ Cardinality(TurnSpans) = 5

\* C20: the demo submits its 5 scripted queries in order to one agent (the
\* k-th query meets the history of the k - 1 turns before it), and leaves
\* its loop only after the 5th; an Exception raised in the turn of one query
\* stays in that turn: it does not end the demo session, so the remaining
\* queries are submitted.
DemoSessionSpans ==
    {i \in 1..Len(spans) : spans[i].name = Str("Agent Demo Session")}
C20_DemoOrder ==
    /\ (pc = "chat_enter" /\ Agent = "demo"
          => /\ demo_i \in 1..Len(demo_queries)
             /\ user_input = demo_queries[demo_i]
             /\ Len(conversation_history["demo"])
                   = IF 2 * (demo_i - 1) > HistoryCap THEN HistoryCap
                     ELSE 2 * (demo_i - 1))
    /\ (pc = "demo_exit" => demo_i = Len(demo_queries) + 1)
C20_DemoSubmitsAllQueries ==
    /\ C20_DemoOrder
    /\ \A i \in DemoSessionSpans :
          (IsException(exc) /\ TurnSpans # {})
            => /\ IsOpen(i)
               /\ spans[i].events = {}

\* C21: each line the interactive loop reads is dispatched on its trimmed
\* text: quit, exit and q end the loop; the empty text is ignored; demo
\* enters the demo; reset is handled in the loop; none of these calls chat on
\* the interactive agent.  Any other text is passed, trimmed, to one chat
\* call on the interactive agent, and when that call is over (it returned,
\* or its Exception reached the loop's handler) the loop reads the next line.
IsTrimmed(s) == \A i \in 1..Len(s) : strip_token(s[i]) = s[i]
IsCommand(s) ==
    \/ str_lower(s) \in {Str("quit"), Str("exit"), Str("q")}
    \/ str_lower(s) \in {Str("demo"), Str("reset")}
    \/ s = Str("")
InteractiveChatSpans ==
    {i \in TurnSpans : /\ spans[i].name = Str("Agent Chat")
                       /\ spans[i].parent # 0
                       /\ spans[spans[i].parent].name
                             = Str("Interactive Agent Session")}
C21_ReadStep ==
    (pc = "im_read" /\ exc' # KeyboardInterrupt)
      => /\ IsTrimmed(user_input')
         /\ requests' = <<>>
         /\ \A i \in 1..Len(spans') : spans'[i].name \in SessionNames
         /\ pc' = CASE str_lower(user_input')
                          \in {Str("quit"), Str("exit"), Str("q")} -> "im_exit"
                    [] str_lower(user_input') = Str("demo") -> "demo_enter"
                    [] str_lower(user_input') = Str("reset") -> "im_read"
                    [] user_input' = Str("") -> "im_read"
                    [] OTHER -> "chat_enter"
C21_ChatStep ==
    /\ (pc = "chat_enter" /\ ctx = <<"interactive_mode">>
          => /\ pc' = "llm1_open"
             /\ spans'[Len(spans')].name = Str("Agent Chat")
             /\ spans'[Len(spans')].input = user_input
             /\ spans'[Len(spans')].parent = 1)
    /\ (pc = "chat_return" /\ ctx = <<"interactive_mode">>
          => pc' = "im_read")
    /\ (pc = "im_except" /\ IsException(exc) => pc' = "im_read")
C21_InputDispatch ==
    /\ [](InteractiveChatSpans # {}
            => /\ Cardinality(InteractiveChatSpans) = 1
               /\ ~IsCommand(user_input)
               /\ IsTrimmed(user_input)
               /\ \A i \in InteractiveChatSpans : spans[i].input = user_input)
    /\ [](pc = "chat_enter" /\ ctx = <<"interactive_mode">>
            => /\ ~IsCommand(user_input)
               /\ TurnSpans = {})
    /\ [](InteractiveRan /\ str_lower(user_input) \in QuitWords
            => pc \in {"im_exit", "shutdown", "exited"})
    /\ [][C21_ReadStep]_vars
    /\ [][C21_ChatStep]_vars
C21_Witness ==
    /\ pc = "im_read"
    /\ user_input = Str("q1")
    /\ inputs_read = MaxInputs
    /\ Len(conversation_history["interactive"]) = 2
    /\ conversation_history["demo"] # <<>>
    /\ spans[1].events = {}

\* C22: the demo run from the interactive loop works on an agent of its own,
\* created with an empty history each time: no step taken inside the demo,
\* by a turn of it or by an exception leaving it, changes the history of the
\* interactive agent, and the messages a demo turn sends hold the demo's own
\* queries and nothing of the interactive agent's history.
InDemo ==
    \/ pc \in {"demo_enter", "demo_agent", "demo_loop", "demo_exit"}
    \/ ctx # <<>> /\ ctx[Len(ctx)] = "demonstrate_agent"
    \/ DemoSessionSpans # {} /\ pc \in {"unwind", "im_except"}
DemoQueries == {demo_queries[k] : k \in 1..Len(demo_queries)}
C22_DemoStep ==
    InDemo
      => conversation_history'["interactive"]
            = conversation_history["interactive"]
C22_InlineDemoOwnAgent ==
    /\ [](pc = "demo_loop" /\ demo_i = 1
            => conversation_history["demo"] = <<>>)
    /\ [](TurnAgent = "demo" /\ requests # <<>>
            => LET first == requests[1].messages
               IN  /\ Len(first) = 2 + (IF 2 * (demo_i - 1) > HistoryCap
                                        THEN HistoryCap ELSE 2 * (demo_i - 1))
                   /\ \A k \in 2..Len(first) :
                         first[k].role = "user"
                            => first[k].content \in DemoQueries)
    /\ [][C22_DemoStep]_vars
C22_Witness ==
    /\ pc = "im_except"
    /\ DemoSessionSpans # {}
    /\ \A i \in DemoSessionSpans :
          spans[i].closes = 1 /\ spans[i].events # {}
    /\ demo_i = 3
    /\ Len(conversation_history["demo"]) = 4
    /\ Len(conversation_history["interactive"]) = 2
    /\ conversation_history["interactive"][1].content \in Queries

====
